---- MODULE Spec2Model ----
(***************************************************************************)
(* A model of the SQL query proxy: the keyword validator, the Pagination   *)
(* value type, the three use cases, the PostgreSQL repository with its     *)
(* pooled connections, and the HTTP routes that map errors to statuses.    *)
(*                                                                         *)
(* Text is modelled as a sequence of one-character strings, so that        *)
(* upper-casing, lower-casing and the \b word boundary of Python's re      *)
(* module are computed character by character.  The alphabet is ASCII.     *)
(***************************************************************************)
EXTENDS Integers, Sequences, FiniteSets, TLC

VARIABLES
    query,              \* validator harness: the text handed to QueryValidator
    is_safe_result,     \* validator harness: result of is_safe_query, once called
    forbidden_result,   \* validator harness: result of get_forbidden_keyword, once called
    error,              \* validator harness: outcome of the use case's validation step, once called
    http,               \* validator harness: the route's response when that step raised
    pagination,         \* pagination harness: a Pagination(page, page_size, total_count)
    total_pages_read,   \* pagination harness: value read from .total_pages, once read
    offset_read,        \* pagination harness: value read from .offset, once read
    settings,           \* the Settings loaded from the environment
    pool_initialized,   \* DatabaseConnectionPool._pool is not None
    catalog,            \* the relations of pg_class (with their namespace)
    ddl_count,          \* number of concurrent catalog changes so far
    req                 \* the in-flight HTTP requests

vars == <<query, is_safe_result, forbidden_result, error, http,
          pagination, total_pages_read, offset_read,
          settings, pool_initialized, catalog, ddl_count, req>>

validator_vars == <<query, is_safe_result, forbidden_result, error, http>>

pagination_vars == <<pagination, total_pages_read, offset_read>>

service_vars == <<settings, pool_initialized, catalog, ddl_count, req>>

\* Python's None: a value that is no text (every element of a text is one character)
None == <<"None">>

(***************************************************************************)
(* Characters.                                                             *)
(***************************************************************************)
UpperLetters == <<"A","B","C","D","E","F","G","H","I","J","K","L","M",
                  "N","O","P","Q","R","S","T","U","V","W","X","Y","Z">>

LowerLetters == <<"a","b","c","d","e","f","g","h","i","j","k","l","m",
                  "n","o","p","q","r","s","t","u","v","w","x","y","z">>

Digits == {"0","1","2","3","4","5","6","7","8","9"}

UpperSet == {UpperLetters[i] : i \in 1..Len(UpperLetters)}

LowerSet == {LowerLetters[i] : i \in 1..Len(LowerLetters)}

\* the letter at the same place of the other alphabet
ToUpper == [c \in LowerSet |-> UpperLetters[CHOOSE i \in 1..Len(LowerLetters) : LowerLetters[i] = c]]

ToLower == [c \in UpperSet |-> LowerLetters[CHOOSE i \in 1..Len(UpperLetters) : UpperLetters[i] = c]]

IsAlnum(c) == c \in UpperSet \/ c \in LowerSet \/ c \in Digits

\* \w of Python's re for str patterns: letters, digits and the underscore
IsWordChar(c) == IsAlnum(c) \/ c = "_"

\* str.upper() on one character
UpperChar(c) == IF c \in LowerSet THEN ToUpper[c] ELSE c

\* str.lower() on one character
LowerChar(c) == IF c \in UpperSet THEN ToLower[c] ELSE c

\* str.upper()
Upper(s) == [i \in 1..Len(s) |-> UpperChar(s[i])]

\* str.lower()
Lower(s) == [i \in 1..Len(s) |-> LowerChar(s[i])]

(***************************************************************************)
(* QueryValidator                                                          *)
(***************************************************************************)
FORBIDDEN_KEYWORDS ==
    << <<"I","N","S","E","R","T">>,
       <<"U","P","D","A","T","E">>,
       <<"D","E","L","E","T","E">>,
       <<"D","R","O","P">>,
       <<"T","R","U","N","C","A","T","E">>,
       <<"A","L","T","E","R">>,
       <<"C","R","E","A","T","E">>,
       <<"G","R","A","N","T">>,
       <<"R","E","V","O","K","E">> >>

\* is position p of s (1-based) a word character; FALSE outside the string
WordAt(s, p) == p \in 1..Len(s) /\ IsWordChar(s[p])

\* \b between s[p] and s[p+1] (p = 0: before the text, p = Len(s): after it)
WordBoundary(s, p) == WordAt(s, p) # WordAt(s, p + 1)

\* the literal text kw occurs in s starting at position i
LiteralAt(s, kw, i) ==
    /\ i >= 1
    /\ i + Len(kw) - 1 <= Len(s)
    /\ \A j \in 1..Len(kw) : s[i + j - 1] = kw[j]

\* re.search(rf"\b{keyword}\b", s) is not None, without the word boundaries
SubstringSearch(keyword, s) ==
    \E i \in 1..Len(s) : LiteralAt(s, keyword, i)

\* re.search(rf"\b{keyword}\b", s) is not None
WordSearch(keyword, s) ==
    \E i \in 1..Len(s) :
        /\ LiteralAt(s, keyword, i)
        /\ WordBoundary(s, i - 1)
        /\ WordBoundary(s, i + Len(keyword) - 1)

\* is_safe_query with a plain substring test
is_safe_query_substring(q) ==
    \A k \in 1..Len(FORBIDDEN_KEYWORDS) : ~SubstringSearch(FORBIDDEN_KEYWORDS[k], Upper(q))

\* is_safe_query with word boundaries that take the underscore for a separator
is_safe_query_alnum_boundary(q) ==
    LET query_upper == Upper(q)
        alnum(p) == p \in 1..Len(query_upper) /\ IsAlnum(query_upper[p])
    IN  \A k \in 1..Len(FORBIDDEN_KEYWORDS) :
            ~\E i \in 1..Len(query_upper) :
                /\ LiteralAt(query_upper, FORBIDDEN_KEYWORDS[k], i)
                /\ ~alnum(i - 1)
                /\ ~alnum(i + Len(FORBIDDEN_KEYWORDS[k]))

\* QueryValidator.is_safe_query: the loop returns False at the first keyword found
is_safe_query(q) ==
    LET query_upper == Upper(q)
    IN  \A k \in 1..Len(FORBIDDEN_KEYWORDS) : ~WordSearch(FORBIDDEN_KEYWORDS[k], query_upper)

\* get_forbidden_keyword returning the keyword found earliest in the text
get_forbidden_keyword_first_in_text(q) ==
    LET query_upper == Upper(q)
        hit(i) == {k \in 1..Len(FORBIDDEN_KEYWORDS) :
                      /\ LiteralAt(query_upper, FORBIDDEN_KEYWORDS[k], i)
                      /\ WordBoundary(query_upper, i - 1)
                      /\ WordBoundary(query_upper, i + Len(FORBIDDEN_KEYWORDS[k]) - 1)}
        at == {i \in 1..Len(q) : hit(i) # {}}
    IN  IF at = {} THEN None
        ELSE LET i == CHOOSE x \in at : \A y \in at : x <= y
             IN  Lower(FORBIDDEN_KEYWORDS[CHOOSE k \in hit(i) : TRUE])

\* get_forbidden_keyword without query.upper()
get_forbidden_keyword_case_sensitive(q) ==
    LET found == {k \in 1..Len(FORBIDDEN_KEYWORDS) : WordSearch(FORBIDDEN_KEYWORDS[k], q)}
    IN  IF found = {} THEN None
        ELSE Lower(FORBIDDEN_KEYWORDS[CHOOSE k \in found : \A m \in found : k <= m])

\* QueryValidator.get_forbidden_keyword: the first keyword of the list that matches
get_forbidden_keyword(q) ==
    LET query_upper == Upper(q)
        found == {k \in 1..Len(FORBIDDEN_KEYWORDS) : WordSearch(FORBIDDEN_KEYWORDS[k], query_upper)}
    IN  IF found = {} THEN None
        ELSE Lower(FORBIDDEN_KEYWORDS[CHOOSE k \in found : \A m \in found : k <= m])

(***************************************************************************)
(* Exceptions, use-case outcomes and HTTP responses.                       *)
(***************************************************************************)
\* str(x) inside an f-string: None is rendered as the text None
Str(x) == IF x = None THEN <<"N","o","n","e">> ELSE x

Exception(type, message) == [type |-> type, message |-> message]

Raise(exc) == [kind |-> "raise", exc |-> exc]

Return(value) == [kind |-> "return", value |-> value]

\* HTTPException(status_code, detail) rendered by the framework as {"detail": detail}
HTTPException(status_code, detail) ==
    [status |-> status_code, shape |-> "detail", detail |-> detail, body |-> None]

\* an exception no handler is registered for: the framework's plain-text 500
UnhandledResponse ==
    [status |-> 500, shape |-> "text", detail |-> None, body |-> "Internal Server Error"]

\* a response built from a response_model
JSONBody(body) == [status |-> 200, shape |-> "json", detail |-> None, body |-> body]

HTTP_400_BAD_REQUEST == 400

HTTP_404_NOT_FOUND == 404

HTTP_500_INTERNAL_SERVER_ERROR == 500

\* exceptions derived from DatabaseError
DatabaseErrorTypes == {"TableNotFoundError", "QueryExecutionError", "ForbiddenQueryError"}

\* database_error_handler
database_error_handler(exc) ==
    [status |-> HTTP_500_INTERNAL_SERVER_ERROR, shape |-> "detail", detail |-> exc.message, body |-> None]

\* an exception that leaves a route: app.add_exception_handler(DatabaseError, ...)
\* takes the DatabaseErrors, every other exception is unhandled
AppExceptionHandlers(exc) ==
    IF exc.type \in DatabaseErrorTypes THEN database_error_handler(exc) ELSE UnhandledResponse

\* the text of the ForbiddenQueryError raised by the use case
ForbiddenMessagePrefix == <<"Q","u","e","r","y"," ","c","o","n","t","a","i","n","s"," ","f","o","r","b","i","d","d","e","n"," ","k","e","y","w","o","r","d",":"," ">>

\* ForbiddenQueryError(f"Query contains forbidden keyword: {forbidden_keyword}")
ForbiddenQueryError(forbidden_keyword) ==
    Exception("ForbiddenQueryError", ForbiddenMessagePrefix \o Str(forbidden_keyword))

\* the use case without its validation step
ExecuteQueryUseCase_validate_skipped(q) == Return("validated")

\* ExecuteQueryUseCase.execute up to the repository call: the validation step
ExecuteQueryUseCase_validate(q) ==
    IF ~is_safe_query(q)
    THEN Raise(ForbiddenQueryError(get_forbidden_keyword(q)))
    ELSE Return("validated")

\* the route with the two except clauses swapped in their status codes
QueryRoute_on_error_swapped(exc) ==
    CASE exc.type = "ForbiddenQueryError" -> HTTPException(HTTP_500_INTERNAL_SERVER_ERROR, exc.message)
      [] exc.type = "QueryExecutionError" -> HTTPException(HTTP_400_BAD_REQUEST, exc.message)
      [] OTHER -> AppExceptionHandlers(exc)

\* POST /api/query: the except clauses of the route; any other exception is not
\* a DatabaseError handled in the route and leaves it unhandled
QueryRoute_on_error(exc) ==
    CASE exc.type = "ForbiddenQueryError" -> HTTPException(HTTP_400_BAD_REQUEST, exc.message)
      [] exc.type = "QueryExecutionError" -> HTTPException(HTTP_500_INTERNAL_SERVER_ERROR, exc.message)
      [] OTHER -> AppExceptionHandlers(exc)

\* GET /api/tables/{table_name}/schema: the except clause of the route
SchemaRoute_on_error(exc) ==
    CASE exc.type = "TableNotFoundError" -> HTTPException(HTTP_404_NOT_FOUND, exc.message)
      [] OTHER -> AppExceptionHandlers(exc)

\* GET /api/tables: the route catches nothing
TablesRoute_on_error(exc) == AppExceptionHandlers(exc)

\* the framework's answer to a request that fails Query(ge=, le=) or
\* Field(min_length=): {"detail": [<one object per failed constraint>]}
ValidationErrorResponse ==
    [status |-> 422, shape |-> "detail_list", detail |-> <<"validation error">>, body |-> None]

(***************************************************************************)
(* Pagination                                                              *)
(***************************************************************************)
Pagination(page, page_size, total_count) ==
    [page |-> page, page_size |-> page_size, total_count |-> total_count]

\* total_pages with floor division
total_pages_floor(p) == p.total_count \div p.page_size

\* Pagination.total_pages
total_pages(p) == (p.total_count + p.page_size - 1) \div p.page_size

\* offset counting the rows up to and including the page asked for
offset_through_page(p) == p.page * p.page_size

\* Pagination.offset
offset(p) == (p.page - 1) * p.page_size

(***************************************************************************)
(* Results of calls that have not been made yet.                           *)
(***************************************************************************)
NotCalled == [called |-> FALSE]

Called(v) == [called |-> TRUE, value |-> v]

(***************************************************************************)
(* Validator harness: QueryValidator and the validation step of            *)
(* ExecuteQueryUseCase applied to texts built from a few fragments.        *)
(***************************************************************************)
MaxFragments == 3

Fragments ==
    { <<"I","N","S","E","R","T">>,
      <<"U","P","D","A","T","E">>,
      <<"D","R","O","P">>,
      <<"d","e","l","e","t","e">>,
      <<"D","r","o","p">>,
      <<" ">>,
      <<"_">>,
      <<"D">>,
      <<"1">> }

RECURSIVE Texts(_)
Texts(n) ==
    IF n = 0 THEN {<<>>}
    ELSE LET shorter == Texts(n - 1)
         IN  shorter \cup {t \o f : t \in shorter, f \in Fragments}

\* Settings: the fields that concern the catalog statements
Settings(db_schema) == [db_schema |-> db_schema]

\* db_schema: str = Field(default="public")
DefaultSettings == Settings("public")

ServiceIdle ==
    /\ settings = DefaultSettings
    /\ pool_initialized = FALSE
    /\ catalog = {}
    /\ ddl_count = 0
    /\ req = <<>>

PaginationIdle ==
    /\ pagination = Pagination(1, 1, 0)
    /\ total_pages_read = NotCalled
    /\ offset_read = NotCalled

ValidatorIdle ==
    /\ query = <<>>
    /\ is_safe_result = NotCalled
    /\ forbidden_result = NotCalled
    /\ error = NotCalled
    /\ http = NotCalled

ValidatorInit ==
    /\ query \in Texts(MaxFragments)
    /\ is_safe_result = NotCalled
    /\ forbidden_result = NotCalled
    /\ error = NotCalled
    /\ http = NotCalled
    /\ PaginationIdle
    /\ ServiceIdle

CallIsSafeQuery ==
    /\ ~is_safe_result.called
    /\ is_safe_result' = Called(is_safe_query(query))
    /\ UNCHANGED <<query, forbidden_result, error, http, pagination_vars, service_vars>>

CallGetForbiddenKeyword ==
    /\ ~forbidden_result.called
    /\ forbidden_result' = Called(get_forbidden_keyword(query))
    /\ UNCHANGED <<query, is_safe_result, error, http, pagination_vars, service_vars>>

\* ExecuteQueryUseCase.execute up to the repository call, and the route's
\* answer when it raised
CallUseCaseValidate ==
    /\ ~error.called
    /\ LET outcome == ExecuteQueryUseCase_validate(query)
       IN  /\ error' = Called(outcome)
           /\ http' = IF outcome.kind = "raise"
                      THEN Called(QueryRoute_on_error(outcome.exc))
                      ELSE http
    /\ UNCHANGED <<query, is_safe_result, forbidden_result, pagination_vars, service_vars>>

ValidatorNext ==
    \/ CallIsSafeQuery
    \/ CallGetForbiddenKeyword
    \/ CallUseCaseValidate

SpecValidator == ValidatorInit /\ [][ValidatorNext]_vars

(***************************************************************************)
(* Pagination harness.                                                     *)
(***************************************************************************)
MaxPage == 3

MaxPageSize == 3

MaxTotalCount == 25

\* page_size: Query(default=10, ge=1, le=100)
DefaultPageSize == 10

PageSizeLimit == 100

PageSizes == (1..MaxPageSize) \cup {DefaultPageSize, PageSizeLimit}

PaginationInit ==
    /\ pagination \in {Pagination(p, s, t) : p \in 1..MaxPage, s \in PageSizes, t \in 0..MaxTotalCount}
    /\ total_pages_read = NotCalled
    /\ offset_read = NotCalled
    /\ ValidatorIdle
    /\ ServiceIdle

ReadTotalPages ==
    /\ total_pages_read' = Called(total_pages(pagination))
    /\ UNCHANGED <<pagination, offset_read, validator_vars, service_vars>>

ReadOffset ==
    /\ offset_read' = Called(offset(pagination))
    /\ UNCHANGED <<pagination, total_pages_read, validator_vars, service_vars>>

PaginationNext ==
    \/ ReadTotalPages
    \/ ReadOffset

SpecPagination == PaginationInit /\ [][PaginationNext]_vars

(***************************************************************************)
(* The catalog: pg_class joined with pg_namespace.  Relation names are     *)
(* compared as ORDER BY c.relname compares them; NameOrder lists the names *)
(* in that order.                                                          *)
(***************************************************************************)
NameOrder == <<"accounts", "accounts_owner_idx", "orders", "secrets", "stats">>

NameRank(name) == CHOOSE i \in 1..Len(NameOrder) : NameOrder[i] = name

Relation(relname, relkind, nspname) ==
    [relname |-> relname, relkind |-> relkind, nspname |-> nspname]

\* relkind: r table, v view, m materialized view, i index
Relations ==
    { Relation("accounts", "r", "public"),
      Relation("accounts_owner_idx", "i", "public"),
      Relation("orders", "v", "public"),
      Relation("secrets", "r", "private"),
      Relation("stats", "m", "public") }

\* a text that is not modelled character by character
Text(s) == <<s>>

\* obj_description and the attributes by attnum (pg_attribute) of a relation; an
\* index has attributes of its own, one per key column
Detail(relname) ==
    CASE relname = "accounts" ->
            [comment |-> Text("customer accounts"), columns |-> <<"id", "owner">>]
      [] relname = "accounts_owner_idx" ->
            [comment |-> None, columns |-> <<"owner", "id">>]
      [] relname = "orders" ->
            [comment |-> None, columns |-> <<"id">>]
      [] relname = "stats" ->
            [comment |-> Text("daily figures"), columns |-> <<"day", "total">>]
      [] OTHER ->
            [comment |-> None, columns |-> <<>>]

\* pg_index: accounts_owner_idx is CREATE UNIQUE INDEX ON accounts (owner, id);
\* indkey holds the attnum of each key column, in key order
pg_index ==
    { [indexrelid |-> "accounts_owner_idx", indrelid |-> "accounts", indkey |-> <<2, 1>>,
       indisunique |-> TRUE, indisprimary |-> FALSE] }

\* an index exists only with its table
WellFormed(cat) ==
    \A ix \in pg_index :
        (\E i \in cat : i.relname = ix.indexrelid) => (\E t \in cat : t.relname = ix.indrelid)

\* DROP of a relation takes its indexes along
Dependents(c) == {i \in Relations : \E ix \in pg_index : ix.indrelid = c.relname /\ ix.indexrelid = i.relname}

\* the WHERE clause of tables_query and count_query
ListedAnyKind(c) == c.nspname = "public"

\* WHERE n.nspname = 'public' AND c.relkind IN ('r', 'v', 'm')
Listed(c) == c.nspname = "public" /\ c.relkind \in {"r", "v", "m"}

\* CASE c.relkind ... END AS table_type
TableType(relkind) ==
    CASE relkind = "r" -> Text("BASE TABLE")
      [] relkind = "v" -> Text("VIEW")
      [] relkind = "m" -> Text("MATERIALIZED VIEW")
      [] OTHER -> None

\* one row of tables_query
TableInfo(c) ==
    [table_name |-> c.relname, table_type |-> TableType(c.relkind),
     column_count |-> Len(Detail(c.relname).columns),
     table_comment |-> Detail(c.relname).comment]

\* ORDER BY c.relname
RECURSIVE OrderByRelname(_)
OrderByRelname(S) ==
    IF S = {} THEN <<>>
    ELSE LET first == CHOOSE c \in S : \A d \in S : NameRank(c.relname) <= NameRank(d.relname)
         IN  <<first>> \o OrderByRelname(S \ {first})

\* LIMIT $1 OFFSET $2 starting over from the first row when the offset is past the end
LimitOffset_wrapping(rows, limit, off) ==
    IF off >= Len(rows)
    THEN SubSeq(rows, 1, IF limit < Len(rows) THEN limit ELSE Len(rows))
    ELSE SubSeq(rows, off + 1, IF off + limit < Len(rows) THEN off + limit ELSE Len(rows))

\* LIMIT $1 OFFSET $2
LimitOffset(rows, limit, off) ==
    SubSeq(rows, off + 1, IF off + limit < Len(rows) THEN off + limit ELSE Len(rows))

\* count_query counting every relation of the schema
count_query_any_kind(cat) == Cardinality({c \in cat : ListedAnyKind(c)})

\* count_query
count_query(cat) == Cardinality({c \in cat : Listed(c)})

\* tables_query with parameters $1 = limit, $2 = offset
tables_query(cat, limit, off) ==
    LET ordered == OrderByRelname({c \in cat : Listed(c)})
        page == LimitOffset(ordered, limit, off)
    IN  [i \in 1..Len(page) |-> TableInfo(page[i])]

\* exists_query answering for every name
exists_query_always(cat, table_name) == TRUE

\* exists_query with parameter $1 = table_name
exists_query(cat, table_name) ==
    \E c \in cat : c.nspname = "public" /\ c.relname = table_name

\* comment_query: fetchval gives None when no row is returned
comment_query(cat, table_name) ==
    IF \E c \in cat : c.nspname = "public" /\ c.relname = table_name
    THEN Detail(table_name).comment
    ELSE None

\* columns_query
columns_query(cat, table_name) ==
    IF \E c \in cat : c.nspname = "public" /\ c.relname = table_name
    THEN Detail(table_name).columns
    ELSE <<>>

\* ARRAY_AGG(a.attname ORDER BY a.attnum) over the attributes a of table t with
\* a.attnum = ANY(ix.indkey)
ArrayAggByAttnum(t, indkey) ==
    LET attname == Detail(t).columns
        in_key(attnum) == \E p \in 1..Len(indkey) : indkey[p] = attnum
        attnums == SelectSeq([attnum \in 1..Len(attname) |-> attnum], in_key)
    IN  [p \in 1..Len(attnums) |-> attname[attnums[p]]]

\* one row of indexes_query
IndexInfo(ix) ==
    [index_name |-> ix.indexrelid, columns |-> ArrayAggByAttnum(ix.indrelid, ix.indkey),
     is_unique |-> ix.indisunique, is_primary |-> ix.indisprimary]

\* indexes_query: the rows come in no stated order
indexes_query(cat, table_name) ==
    { IndexInfo(ix) : ix \in
        { ix \in pg_index :
            /\ \E t \in cat : t.relname = ix.indrelid /\ t.nspname = "public" /\ t.relname = table_name
            /\ \E i \in cat : i.relname = ix.indexrelid } }

(***************************************************************************)
(* The service: requests served concurrently on one event loop.  A step of *)
(* a request runs from one await to the next.                              *)
(***************************************************************************)
MaxDDL == 1

\* the pool's max_size (settings.db_pool_max_size), kept small
PoolMaxSize == 1

MaxReqPage == 2

MaxReqPageSize == 2

\* the requests being served
Requests == DOMAIN req

\* page_size values a client may send: small ones, the limit and one past it
RequestPageSizes == (0..MaxReqPageSize) \cup {PageSizeLimit, PageSizeLimit + 1}

\* a query parameter the client left out, or sent with a value
Omitted == NotCalled

Sent(value) == Called(value)

RequestParams(values) == {Omitted} \cup {Sent(v) : v \in values}

\* Query(default=...): the value sent, the default for an omitted parameter
Query(param, default) == IF param.called THEN param.value ELSE default

\* page: int = Query(default=1, ge=1)
DefaultPage == 1

ValidPage(page) == page >= 1

\* page_size checked against ge=1 only
ValidPageSize_no_upper_limit(page_size) == page_size >= 1

\* page_size: int = Query(default=10, ge=1, le=100)
ValidPageSize(page_size) == page_size >= 1 /\ page_size <= PageSizeLimit

\* query: str = Field(min_length=1)
ValidQuery(q) == Len(q) >= 1

TableNames == {NameOrder[i] : i \in 1..Len(NameOrder)} \cup {"missing"}

SampleQueries ==
    { <<"S","E","L","E","C","T"," ","1">>,
      <<"D","R","O","P"," ","T","A","B","L","E"," ","u","s","e","r","s">>,
      <<"s","e","l","e","c","t"," ","u","p","d","a","t","e","d","_","a","t">>,
      <<"C","A","L","L"," ","p","u","r","g","e","(",")">> }

\* what conn.fetch / conn.fetchval does with a statement: it answers, the server
\* reports an error (asyncpg.PostgresError), or the client side fails
\* (asyncpg.InterfaceError, OSError: not a PostgresError)
DriverOutcomes == {"ok", "PostgresError", "InterfaceError"}

\* rows a SELECT may return: each row is a sequence of (key, value) fields, the
\* rows of one statement having the same keys; two fields may have the same key
\* (SELECT 1 AS n, 2 AS n)
Field(key, value) == [key |-> key, value |-> value]

ResultSets ==
    { <<>>,
      << <<Field("id", 1), Field("name", "a")>> >>,
      << <<Field("id", 1), Field("name", "a")>>, <<Field("id", 2), Field("name", "b")>> >>,
      << <<Field("n", 1), Field("n", 2)>> >> }

NoException == Exception("none", <<>>)

NoResponse == [status |-> 0, shape |-> "none", detail |-> None, body |-> None]

NoPagination == Pagination(0, 0, 0)

IdleRequest ==
    [route |-> "none", pc |-> "idle",
     params |-> [page |-> Omitted, page_size |-> Omitted],
     page |-> 0, page_size |-> 0, table_name |-> "", query |-> <<>>,
     validator_called |-> FALSE,
     pagination |-> NoPagination,
     conn |-> "none", stmts |-> <<>>, page_args |-> <<>>, fetch_arg |-> None, rows |-> <<>>,
     total_count |-> 0, exists |-> NotCalled, table_comment |-> None, columns |-> <<>>,
     exc |-> NoException, response |-> NoResponse, changed |-> FALSE, seen |-> {}]

\* connections checked out of the pool: held in a request's `async for` body,
\* or still owned by an acquire() generator that was left suspended at its yield
CheckedOut == Cardinality({r \in Requests : req[r].conn \in {"held", "abandoned"}})

\* the schemas a deployment may name in DB_SCHEMA
Schemas == {c.nspname : c \in Relations}

Init ==
    /\ ValidatorIdle
    /\ PaginationIdle
    /\ pool_initialized = FALSE
    /\ settings \in {Settings(db_schema) : db_schema \in Schemas}
    /\ catalog \in {cat \in SUBSET Relations : WellFormed(cat)}
    /\ ddl_count = 0
    /\ req = <<IdleRequest>>

\* lifespan: pool.connect() before the first request is served
Startup ==
    /\ ~pool_initialized
    /\ pool_initialized' = TRUE
    /\ UNCHANGED <<settings, catalog, ddl_count, req, validator_vars, pagination_vars>>

\* a return or raise inside `async for conn in self._pool.acquire()` leaves the
\* loop without closing the generator: the connection stays with the generator
LeaveAsyncFor(conn) == IF conn = "held" THEN "abandoned" ELSE conn

\* the request ends: the repository call left its `async for`, the route answered
Finish(r, exc, response, fields) ==
    req' = [req EXCEPT ![r] =
              [f \in DOMAIN req[r] |->
                  CASE f = "pc" -> "done"
                    [] f = "conn" -> LeaveAsyncFor(req[r].conn)
                    [] f = "exc" -> exc
                    [] f = "response" -> response
                    [] f \in DOMAIN fields -> fields[f]
                    [] OTHER -> req[r][f]]]

\* the request goes on to its next await
Continue(r, pc, fields) ==
    req' = [req EXCEPT ![r] =
              [f \in DOMAIN req[r] |->
                  CASE f = "pc" -> pc
                    [] f \in DOMAIN fields -> fields[f]
                    [] OTHER -> req[r][f]]]

\* a statement issued a second time after its first attempt
Issued_twice(r, stmt) == Append(Append(req[r].stmts, stmt), stmt)

Issued(r, stmt) == Append(req[r].stmts, stmt)

\* a driver fault of a statement, as the exception conn.fetch raises
DriverException(outcome) == Exception(outcome, Text("driver message"))

\* TableNotFoundError(f"Table '{table_name}' not found")
TableNotFoundError(table_name) ==
    Exception("TableNotFoundError", <<"Table '", table_name, "' not found">>)

\* QueryExecutionError(f"Query execution failed: {str(e)}")
QueryExecutionError(e) ==
    Exception("QueryExecutionError", <<"Query execution failed: ">> \o e.message)

\* QueryResult with the number of columns as row_count
QueryResult_count_columns(rows) ==
    IF rows = <<>>
    THEN [columns |-> <<>>, rows |-> <<>>, row_count |-> 0]
    ELSE [columns |-> [i \in 1..Len(rows[1]) |-> rows[1][i].key],
          rows |-> [n \in 1..Len(rows) |-> [i \in 1..Len(rows[n]) |-> rows[n][i].value]],
          row_count |-> Len(rows[1])]

\* QueryResult built by execute_query from the rows of conn.fetch
QueryResult(rows) ==
    IF rows = <<>>
    THEN [columns |-> <<>>, rows |-> <<>>, row_count |-> 0]
    ELSE [columns |-> [i \in 1..Len(rows[1]) |-> rows[1][i].key],
          rows |-> [n \in 1..Len(rows) |-> [i \in 1..Len(rows[n]) |-> rows[n][i].value]],
          row_count |-> Len(rows)]

\* GetTablesUseCase.execute: the Pagination rebuilt from the returned total_count
GetTablesUseCase_pagination(page, page_size, total_count) ==
    Pagination(page, page_size, total_count)

\* TablesResponse
TablesResponse(tables, pg) ==
    JSONBody([tables |-> tables,
              pagination |-> [page |-> pg.page, page_size |-> pg.page_size,
                              total_count |-> pg.total_count, total_pages |-> total_pages(pg)]])

\* GET /api/tables?page&page_size: Query(ge=1), Query(ge=1, le=100), then the use
\* case up to the repository's first await
ReceiveGetTables(r, pages, page_sizes) ==
    /\ pool_initialized
    /\ req[r].pc = "idle"
    /\ \E page_param \in pages, page_size_param \in page_sizes :
          LET page == Query(page_param, DefaultPage)
              page_size == Query(page_size_param, DefaultPageSize)
              params == [page |-> page_param, page_size |-> page_size_param]
          IN  IF ValidPage(page) /\ ValidPageSize(page_size)
              THEN Continue(r, "acquire",
                            [route |-> "tables", params |-> params,
                             page |-> page, page_size |-> page_size,
                             pagination |-> Pagination(page, page_size, 0)])
              ELSE Finish(r, NoException, ValidationErrorResponse,
                          [route |-> "tables", params |-> params,
                           page |-> page, page_size |-> page_size])
    /\ UNCHANGED <<settings, pool_initialized, catalog, ddl_count, validator_vars, pagination_vars>>

\* GET /api/tables/{table_name}/schema, up to the repository's first await
ReceiveGetTableSchema(r, table_names) ==
    /\ pool_initialized
    /\ req[r].pc = "idle"
    /\ \E table_name \in table_names :
          Continue(r, "acquire", [route |-> "schema", table_name |-> table_name,
                                  seen |-> {catalog}])
    /\ UNCHANGED <<settings, pool_initialized, catalog, ddl_count, validator_vars, pagination_vars>>

\* POST /api/query {query}: QueryRequest wants min_length=1; then
\* ExecuteQueryUseCase.execute validates and either raises (the route answers)
\* or goes on to the repository's first await
ReceiveExecuteQuery(r, queries) ==
    /\ pool_initialized
    /\ req[r].pc = "idle"
    /\ \E q \in queries :
          LET outcome == ExecuteQueryUseCase_validate(q)
          IN  IF ~ValidQuery(q)
              THEN Finish(r, NoException, ValidationErrorResponse,
                          [route |-> "query", query |-> q])
              ELSE IF outcome.kind = "raise"
              THEN Finish(r, outcome.exc, QueryRoute_on_error(outcome.exc),
                          [route |-> "query", query |-> q, validator_called |-> TRUE])
              ELSE Continue(r, "acquire",
                            [route |-> "query", query |-> q, validator_called |-> TRUE])
    /\ UNCHANGED <<settings, pool_initialized, catalog, ddl_count, validator_vars, pagination_vars>>

FirstStatement(route) ==
    CASE route = "tables" -> "count"
      [] route = "schema" -> "exists"
      [] route = "query" -> "fetch"

RouteOnError(route, exc) ==
    CASE route = "tables" -> TablesRoute_on_error(exc)
      [] route = "schema" -> SchemaRoute_on_error(exc)
      [] route = "query" -> QueryRoute_on_error(exc)

\* DatabaseConnectionPool.acquire: `async with self._pool.acquire()` waits for a
\* free connection and yields it into the `async for` body
Acquire(r) ==
    /\ req[r].pc = "acquire"
    /\ IF ~pool_initialized
       THEN LET exc == Exception("RuntimeError", <<"Connection pool not initialized">>)
            IN  Finish(r, exc, RouteOnError(req[r].route, exc), <<>>)
       ELSE /\ CheckedOut < PoolMaxSize
            /\ Continue(r, FirstStatement(req[r].route), [conn |-> "held"])
    /\ UNCHANGED <<settings, pool_initialized, catalog, ddl_count, validator_vars, pagination_vars>>

\* a statement of get_tables or get_table_schema fails in the driver: nothing
\* catches it in the repository or the use case
StatementFails(r, stmt) ==
    /\ req[r].pc = stmt
    /\ req[r].route \in {"tables", "schema"}
    /\ \E outcome \in DriverOutcomes \ {"ok"} :
          LET exc == DriverException(outcome)
          IN  Finish(r, exc, RouteOnError(req[r].route, exc), [stmts |-> Issued(r, stmt)])
    /\ UNCHANGED <<settings, pool_initialized, catalog, ddl_count, validator_vars, pagination_vars>>

\* get_tables: total_count = await conn.fetchval(count_query)
GetTablesCount(r) ==
    /\ req[r].pc = "count"
    /\ Continue(r, "page", [stmts |-> Issued(r, "count"), total_count |-> count_query(catalog)])
    /\ UNCHANGED <<settings, pool_initialized, catalog, ddl_count, validator_vars, pagination_vars>>

\* get_tables: rows = await conn.fetch(tables_query, page_size, offset); the
\* use case rebuilds the Pagination and the route answers
GetTablesPage(r) ==
    /\ req[r].pc = "page"
    /\ LET page_args == <<req[r].pagination.page_size, offset(req[r].pagination)>>
           tables == tables_query(catalog, page_args[1], page_args[2])
           pg == GetTablesUseCase_pagination(req[r].page, req[r].page_size, req[r].total_count)
       IN  Finish(r, NoException, TablesResponse(tables, pg),
                  [stmts |-> Issued(r, "page"), page_args |-> page_args, pagination |-> pg])
    /\ UNCHANGED <<settings, pool_initialized, catalog, ddl_count, validator_vars, pagination_vars>>

\* get_table_schema: exists = await conn.fetchval(exists_query, table_name)
GetTableSchemaExists(r) ==
    /\ req[r].pc = "exists"
    /\ LET exists == exists_query(catalog, req[r].table_name)
       IN  IF ~exists
           THEN LET exc == TableNotFoundError(req[r].table_name)
                IN  Finish(r, exc, SchemaRoute_on_error(exc),
                           [stmts |-> Issued(r, "exists"), exists |-> Called(exists)])
           ELSE Continue(r, "comment", [stmts |-> Issued(r, "exists"), exists |-> Called(exists)])
    /\ UNCHANGED <<settings, pool_initialized, catalog, ddl_count, validator_vars, pagination_vars>>

\* get_table_schema: table_comment = await conn.fetchval(comment_query, table_name)
GetTableSchemaComment(r) ==
    /\ req[r].pc = "comment"
    /\ Continue(r, "columns", [stmts |-> Issued(r, "comment"),
                               table_comment |-> comment_query(catalog, req[r].table_name)])
    /\ UNCHANGED <<settings, pool_initialized, catalog, ddl_count, validator_vars, pagination_vars>>

\* get_table_schema: column_rows = await conn.fetch(columns_query, table_name)
GetTableSchemaColumns(r) ==
    /\ req[r].pc = "columns"
    /\ Continue(r, "indexes", [stmts |-> Issued(r, "columns"),
                               columns |-> columns_query(catalog, req[r].table_name)])
    /\ UNCHANGED <<settings, pool_initialized, catalog, ddl_count, validator_vars, pagination_vars>>

\* SchemaResponse
SchemaResponse(table_name, table_comment, columns, indexes) ==
    JSONBody([table_name |-> table_name, table_comment |-> table_comment,
              column_count |-> Len(columns), columns |-> columns, indexes |-> indexes])

\* get_table_schema: index_rows = await conn.fetch(indexes_query, table_name);
\* the repository returns and the route answers
GetTableSchemaIndexes(r) ==
    /\ req[r].pc = "indexes"
    /\ LET indexes == indexes_query(catalog, req[r].table_name)
       IN  Finish(r, NoException,
                  SchemaResponse(req[r].table_name, req[r].table_comment, req[r].columns, indexes),
                  [stmts |-> Issued(r, "indexes")])
    /\ UNCHANGED <<settings, pool_initialized, catalog, ddl_count, validator_vars, pagination_vars>>

\* QueryResponse
QueryResponse(result) ==
    JSONBody([columns |-> result.columns, rows |-> result.rows, row_count |-> result.row_count])

\* execute_query: rows = await conn.fetch(query) answers
ExecuteQueryFetch(r) ==
    /\ req[r].pc = "fetch"
    /\ \E rows \in ResultSets :
          Finish(r, NoException, QueryResponse(QueryResult(rows)),
                 [stmts |-> Issued(r, "fetch"), fetch_arg |-> req[r].query, rows |-> rows])
    /\ UNCHANGED <<settings, pool_initialized, catalog, ddl_count, validator_vars, pagination_vars>>

\* execute_query: conn.fetch raises; `except asyncpg.PostgresError` wraps the
\* server's errors, any other exception passes through
ExecuteQueryFails(r) ==
    /\ req[r].pc = "fetch"
    /\ \E outcome \in DriverOutcomes \ {"ok"} :
          LET e == DriverException(outcome)
              exc == IF outcome = "PostgresError" THEN QueryExecutionError(e) ELSE e
          IN  Finish(r, exc, QueryRoute_on_error(exc),
                     [stmts |-> Issued(r, "fetch"), fetch_arg |-> req[r].query])
    /\ UNCHANGED <<settings, pool_initialized, catalog, ddl_count, validator_vars, pagination_vars>>

\* the event loop's asynchronous-generator finalizer closes an acquire()
\* generator that was left suspended: its `async with` releases the connection
FinalizeGenerator(r) ==
    /\ req[r].conn = "abandoned"
    /\ req' = [req EXCEPT ![r].conn = "released"]
    /\ UNCHANGED <<settings, pool_initialized, catalog, ddl_count, validator_vars, pagination_vars>>

\* requests that have started see a catalog that changed under them; a
\* get_table_schema call still being served has lived through the new catalog
\* state as well
MarkChanged(cat) ==
    [r \in Requests |->
        CASE req[r].pc = "idle" -> req[r]
          [] req[r].pc # "done" /\ req[r].route = "schema" ->
                [req[r] EXCEPT !.changed = TRUE, !.seen = @ \cup {cat}]
          [] OTHER -> [req[r] EXCEPT !.changed = TRUE]]

\* another session creates a relation
CreateRelation(c) ==
    /\ pool_initialized
    /\ ddl_count < MaxDDL
    /\ c \notin catalog
    /\ WellFormed(catalog \cup {c})
    /\ catalog' = catalog \cup {c}
    /\ ddl_count' = ddl_count + 1
    /\ req' = MarkChanged(catalog')
    /\ UNCHANGED <<settings, pool_initialized, validator_vars, pagination_vars>>

\* another session drops a relation
DropRelation(c) ==
    /\ pool_initialized
    /\ ddl_count < MaxDDL
    /\ c \in catalog
    /\ catalog' = catalog \ ({c} \cup Dependents(c))
    /\ ddl_count' = ddl_count + 1
    /\ req' = MarkChanged(catalog')
    /\ UNCHANGED <<settings, pool_initialized, validator_vars, pagination_vars>>

\* a step of some request other than its arrival
RequestStep ==
    \/ \E r \in Requests : Acquire(r)
    \/ \E r \in Requests : StatementFails(r, "count")
    \/ \E r \in Requests : StatementFails(r, "page")
    \/ \E r \in Requests : StatementFails(r, "exists")
    \/ \E r \in Requests : StatementFails(r, "comment")
    \/ \E r \in Requests : StatementFails(r, "columns")
    \/ \E r \in Requests : StatementFails(r, "indexes")
    \/ \E r \in Requests : GetTablesCount(r)
    \/ \E r \in Requests : GetTablesPage(r)
    \/ \E r \in Requests : GetTableSchemaExists(r)
    \/ \E r \in Requests : GetTableSchemaComment(r)
    \/ \E r \in Requests : GetTableSchemaColumns(r)
    \/ \E r \in Requests : GetTableSchemaIndexes(r)
    \/ \E r \in Requests : ExecuteQueryFetch(r)
    \/ \E r \in Requests : ExecuteQueryFails(r)
    \/ \E r \in Requests : FinalizeGenerator(r)

\* one request, of any route and input, served while other sessions change the catalog
Next ==
    \/ Startup
    \/ \E r \in Requests : ReceiveGetTables(r, RequestParams(0..MaxReqPage), RequestParams(RequestPageSizes))
    \/ \E r \in Requests : ReceiveGetTableSchema(r, TableNames)
    \/ \E r \in Requests : ReceiveExecuteQuery(r, SampleQueries \cup {<<>>})
    \/ RequestStep
    \/ \E c \in Relations : CreateRelation(c)
    \/ \E c \in Relations : DropRelation(c)

Spec == Init /\ [][Next]_vars

(***************************************************************************)
(* Several requests sharing the pool, over a catalog that does not change. *)
(***************************************************************************)
NumRequests == 2

PoolInit ==
    /\ ValidatorIdle
    /\ PaginationIdle
    /\ settings = DefaultSettings
    /\ pool_initialized = FALSE
    /\ catalog = Relations
    /\ ddl_count = 0
    /\ req = [r \in 1..NumRequests |-> IdleRequest]

PoolNext ==
    \/ Startup
    \/ \E r \in Requests : ReceiveGetTables(r, {Omitted}, {Omitted})
    \/ \E r \in Requests : ReceiveGetTableSchema(r, {"accounts", "missing"})
    \/ \E r \in Requests : ReceiveExecuteQuery(r, {<<"S","E","L","E","C","T"," ","1">>, <<"D","R","O","P"," ","T","A","B","L","E"," ","u","s","e","r","s">>})
    \/ RequestStep

SpecPool == PoolInit /\ [][PoolNext]_vars

(***************************************************************************)
(* A client that walks the pages of GET /api/tables: page 1, and then each *)
(* next page up to the total_pages of the response before, with the same   *)
(* page_size, over a catalog that does not change.                         *)
(***************************************************************************)
\* the most pages a walk can have: one relation per page
WalkLength == count_query(Relations)

PagesInit ==
    /\ ValidatorIdle
    /\ PaginationIdle
    /\ settings = DefaultSettings
    /\ pool_initialized = FALSE
    /\ catalog \in {cat \in SUBSET Relations : WellFormed(cat)}
    /\ ddl_count = 0
    /\ req = [r \in 1..WalkLength |-> IdleRequest]

\* GET /api/tables?page=r&page_size=..., sent once page r-1 was answered
RequestPage(r) ==
    /\ \/ r = 1
       \/ /\ r > 1
          /\ req[r - 1].pc = "done"
          /\ req[r - 1].response.status = 200
          /\ r <= req[r - 1].response.body.pagination.total_pages
    /\ ReceiveGetTables(r, {Sent(r)},
                        IF r = 1 THEN RequestParams(RequestPageSizes)
                        ELSE {req[r - 1].params.page_size})

PagesNext ==
    \/ Startup
    \/ \E r \in Requests : RequestPage(r)
    \/ \E r \in Requests : Acquire(r)
    \/ \E r \in Requests : StatementFails(r, "count")
    \/ \E r \in Requests : StatementFails(r, "page")
    \/ \E r \in Requests : GetTablesCount(r)
    \/ \E r \in Requests : GetTablesPage(r)
    \/ \E r \in Requests : FinalizeGenerator(r)

SpecPages == PagesInit /\ [][PagesNext]_vars

(***************************************************************************)
(* Properties of the validator and of Pagination.                          *)
(***************************************************************************)
\* kw, in any letter case, is written in q from position i on
WrittenAt(q, kw, i) ==
    /\ i + Len(kw) - 1 <= Len(q)
    /\ \A j \in 1..Len(kw) : q[i + j - 1] \in {kw[j], LowerChar(kw[j])}

\* ... as a word of its own: no letter, digit or underscore touches it
StandaloneAt(q, kw, i) ==
    /\ WrittenAt(q, kw, i)
    /\ (i = 1 \/ ~IsWordChar(q[i - 1]))
    /\ (i + Len(kw) - 1 = Len(q) \/ ~IsWordChar(q[i + Len(kw)]))

StandaloneKeywords(q) ==
    {k \in 1..Len(FORBIDDEN_KEYWORDS) :
        \E i \in 1..Len(q) : StandaloneAt(q, FORBIDDEN_KEYWORDS[k], i)}

\* ... inside a longer identifier: a letter, digit or underscore touches it
InsideIdentifierAt(q, kw, i) ==
    /\ WrittenAt(q, kw, i)
    /\ \/ (i > 1 /\ IsWordChar(q[i - 1]))
       \/ (i + Len(kw) - 1 < Len(q) /\ IsWordChar(q[i + Len(kw)]))

KeywordWritten(q) ==
    \E k \in 1..Len(FORBIDDEN_KEYWORDS) : \E i \in 1..Len(q) :
        WrittenAt(q, FORBIDDEN_KEYWORDS[k], i)

OnlyInsideIdentifiers(q) ==
    \A k \in 1..Len(FORBIDDEN_KEYWORDS) : \A i \in 1..Len(q) :
        WrittenAt(q, FORBIDDEN_KEYWORDS[k], i) => InsideIdentifierAt(q, FORBIDDEN_KEYWORDS[k], i)

FirstDeclared(ks) == CHOOSE k \in ks : \A m \in ks : k <= m

\* C2: a query holding a denylisted keyword as a standalone word, in any letter
\* case, is not safe, and get_forbidden_keyword returns in lowercase the
\* standalone keyword that comes first in the declared list.
C2_StandaloneKeywordRejected ==
    StandaloneKeywords(query) # {} =>
        /\ is_safe_result.called => is_safe_result.value = FALSE
        /\ forbidden_result.called =>
              forbidden_result.value = Lower(FORBIDDEN_KEYWORDS[FirstDeclared(StandaloneKeywords(query))])

\* "DROP INSERT": drop comes first in the text, insert first in the list
C2_Witness ==
    /\ query = <<"D","R","O","P"," ","I","N","S","E","R","T">>
    /\ is_safe_result = Called(FALSE)
    /\ forbidden_result = Called(<<"i","n","s","e","r","t">>)

\* C4: a query in which denylisted words are written only inside longer
\* identifiers is safe and has no forbidden keyword.
C4_SubstringsOfIdentifiersAccepted ==
    OnlyInsideIdentifiers(query) =>
        /\ is_safe_result.called => is_safe_result.value = TRUE
        /\ forbidden_result.called => forbidden_result.value = None

\* "UPDATED_": UPDATE written inside a longer identifier
C4_Witness ==
    /\ query = <<"U","P","D","A","T","E","D","_">>
    /\ KeywordWritten(query)
    /\ is_safe_result = Called(TRUE)
    /\ forbidden_result = Called(None)

\* C5: a ForbiddenQueryError names, in lowercase, the first keyword in declared
\* order that matches the query, never None; is_safe_query is false exactly when
\* get_forbidden_keyword is not None; the route answers 400 with that message.
C5_ForbiddenErrorNamesKeyword ==
    /\ (is_safe_result.called /\ forbidden_result.called) =>
          (is_safe_result.value = FALSE <=> forbidden_result.value # None)
    /\ (error.called /\ error.value.kind = "raise") =>
          /\ error.value.exc.type = "ForbiddenQueryError"
          /\ StandaloneKeywords(query) # {}
          /\ error.value.exc.message =
                ForbiddenMessagePrefix \o Lower(FORBIDDEN_KEYWORDS[FirstDeclared(StandaloneKeywords(query))])
          /\ http = Called(HTTPException(400, error.value.exc.message))

\* "DROP D": 400 with a detail that ends in drop
C5_Witness ==
    /\ query = <<"D","R","O","P"," ","D">>
    /\ error.called /\ error.value.kind = "raise"
    /\ http.called /\ http.value.status = 400 /\ http.value.shape = "detail"
    /\ http.value.detail = ForbiddenMessagePrefix \o <<"d","r","o","p">>

\* the least n with n * size >= count
Ceil(count, size) ==
    CHOOSE n \in 0..count : n * size >= count /\ \A m \in 0..count : m * size >= count => n <= m

\* C6: total_pages is ceil(total_count / page_size), 0 for no rows, and offset
\* is the number of rows on the pages before this one.
C6_PaginationArithmetic ==
    /\ total_pages_read.called =>
          /\ total_pages_read.value = Ceil(pagination.total_count, pagination.page_size)
          /\ (pagination.total_count = 0 => total_pages_read.value = 0)
    /\ offset_read.called =>
          offset_read.value + pagination.page_size = pagination.page * pagination.page_size

\* page=3, page_size=10, total_count=25 gives total_pages=3, offset=20
C6_Witness ==
    /\ pagination = Pagination(3, 10, 25)
    /\ total_pages_read = Called(3)
    /\ offset_read = Called(20)

(***************************************************************************)
(* Properties of the service.                                              *)
(***************************************************************************)
\* C1: the validator is consulted before the repository: a query that is not
\* safe fails with ForbiddenQueryError without a connection or a statement, and
\* every query that reached the driver's fetch is safe.
C1_ValidationPrecedesExecution ==
    \A r \in Requests : req[r].route = "query" =>
        /\ ~is_safe_query(req[r].query) =>
              /\ req[r].pc = "done"
              /\ req[r].exc.type = "ForbiddenQueryError"
              /\ req[r].stmts = <<>>
              /\ req[r].conn = "none"
        /\ (req[r].stmts # <<>> \/ req[r].conn # "none") => is_safe_query(req[r].query)

\* "DROP TABLE users" was refused with no statement issued
C1_Witness ==
    \E r \in Requests :
        /\ req[r].route = "query"
        /\ req[r].query = <<"D","R","O","P"," ","T","A","B","L","E"," ","u","s","e","r","s">>
        /\ req[r].pc = "done"
        /\ req[r].exc.type = "ForbiddenQueryError"
        /\ req[r].stmts = <<>>

\* the statement starts with the word SELECT, in any letter case
IsSelectStatement(q) ==
    LET select == <<"S","E","L","E","C","T">>
    IN  /\ LiteralAt(Upper(q), select, 1)
        /\ ~WordAt(q, Len(select) + 1)

\* C3: only SELECT statements are passed on to the database by the
\* execute-query endpoint.
C3_OnlySelectReachesDatabase ==
    \A r \in Requests :
        (req[r].route = "query" /\ req[r].stmts # <<>>) => IsSelectStatement(req[r].query)

\* the relations ListTables is to enumerate: tables, views and materialized
\* views of the schema the statements name
Enumerated(cat) == {c \in cat : c.nspname = "public" /\ c.relkind \in {"r", "v", "m"}}

Min(a, b) == IF a < b THEN a ELSE b

Max(a, b) == IF a > b THEN a ELSE b

\* C7: over a catalog that did not change, ListTables(page, page_size) answers
\* with the relations at positions offset .. offset+page_size-1 of the
\* name-ascending list of tables, views and materialized views, and with the
\* number of all of them as total_count.
C7_ListTablesPage ==
    \A r \in Requests :
        (req[r].route = "tables" /\ req[r].pc = "done" /\ req[r].response.status = 200
         /\ ~req[r].changed) =>
            LET body == req[r].response.body
                all == Enumerated(catalog)
                total == Cardinality(all)
                off == (req[r].page - 1) * req[r].page_size
            IN  /\ body.pagination.total_count = total
                /\ body.pagination.total_pages = Ceil(total, req[r].page_size)
                /\ body.pagination.page = req[r].page
                /\ body.pagination.page_size = req[r].page_size
                /\ Len(body.tables) = Min(req[r].page_size, Max(0, total - off))
                /\ \A i \in 1..Len(body.tables) :
                      \E c \in all :
                          /\ c.relname = body.tables[i].table_name
                          /\ Cardinality({d \in all : NameRank(d.relname) < NameRank(c.relname)})
                                = off + i - 1

\* three relations listed two per page: page 2 holds the last one
C7_Witness ==
    \E r \in Requests :
        /\ req[r].route = "tables" /\ req[r].pc = "done" /\ ~req[r].changed
        /\ req[r].response.status = 200
        /\ req[r].page = 2 /\ req[r].page_size = 2
        /\ Len(req[r].response.body.tables) = 1
        /\ req[r].response.body.tables[1].table_name = "stats"
        /\ req[r].response.body.pagination.total_count = 3
        /\ req[r].response.body.pagination.total_pages = 2
        /\ Cardinality(catalog) > 3

InSchema(cat, name) == \E c \in cat : c.relname = name /\ c.nspname = "public"

\* C8: get_table_schema for a name that is not in the schema issues the
\* existence statement only and, when that statement answers, fails with
\* TableNotFoundError, which reaches the route unchanged (404 with its message).
C8_MissingTableStopsAtExistence ==
    \A r \in Requests : req[r].route = "schema" =>
        /\ (req[r].stmts # <<>> /\ ~req[r].changed /\ ~InSchema(catalog, req[r].table_name)) =>
              /\ req[r].pc = "done"
              /\ req[r].stmts = <<"exists">>
              /\ req[r].exists.called => req[r].exists.value = FALSE
        /\ (req[r].exists.called /\ req[r].exists.value = FALSE) =>
              /\ req[r].pc = "done"
              /\ req[r].stmts = <<"exists">>
              /\ req[r].exc = TableNotFoundError(req[r].table_name)
              /\ req[r].response = HTTPException(404, req[r].exc.message)

C8_Witness ==
    \E r \in Requests :
        /\ req[r].route = "schema" /\ req[r].table_name = "missing"
        /\ req[r].pc = "done"
        /\ req[r].stmts = <<"exists">>
        /\ req[r].exc.type = "TableNotFoundError"
        /\ req[r].response.status = 404

\* C9: when a request has completed, the connection acquired for it is back in
\* the pool, whether the repository call returned or raised.
C9_ConnectionReleasedOnCompletion ==
    \A r \in Requests : req[r].pc = "done" => req[r].conn \in {"none", "released"}

\* C10: ForbiddenQueryError gives 400, TableNotFoundError gives 404 and
\* QueryExecutionError gives 500, each with the error's message as the detail,
\* and a query that is not safe is answered 400.
C10_TypedErrorsMapToStatuses ==
    \A r \in Requests : req[r].pc = "done" =>
        /\ (req[r].route = "query" /\ req[r].exc.type = "ForbiddenQueryError") =>
              req[r].response = HTTPException(400, req[r].exc.message)
        /\ (req[r].route = "schema" /\ req[r].exc.type = "TableNotFoundError") =>
              req[r].response = HTTPException(404, req[r].exc.message)
        /\ (req[r].route = "query" /\ req[r].exc.type = "QueryExecutionError") =>
              req[r].response = HTTPException(500, req[r].exc.message)
        /\ (req[r].route = "query" /\ ~is_safe_query(req[r].query)) =>
              req[r].response.status = 400

\* one request refused with 400 while another failed in the driver with 500
C10_Witness ==
    \E r, s \in Requests :
        /\ req[r].pc = "done" /\ req[r].exc.type = "ForbiddenQueryError"
        /\ req[r].response.status = 400 /\ req[r].response.shape = "detail"
        /\ req[s].pc = "done" /\ req[s].exc.type = "QueryExecutionError"
        /\ req[s].response.status = 500 /\ req[s].response.shape = "detail"
        /\ req[s].response.detail = req[s].exc.message

\* the text ends with the given suffix
EndsWith(text, suffix) ==
    /\ Len(suffix) <= Len(text)
    /\ SubSeq(text, Len(text) - Len(suffix) + 1, Len(text)) = suffix

\* C11: every fault the driver raises while running the statement of
\* execute_query reaches the caller as QueryExecutionError and as no other
\* exception type, with the driver's message text in its message.
C11_DriverFaultsBecomeQueryExecutionError ==
    \A r \in Requests :
        (req[r].route = "query" /\ req[r].pc = "done" /\ req[r].stmts = <<"fetch">>
         /\ req[r].exc # NoException) =>
            /\ req[r].exc.type = "QueryExecutionError"
            /\ \E outcome \in DriverOutcomes \ {"ok"} :
                  EndsWith(req[r].exc.message, DriverException(outcome).message)

\* C12: the QueryResult of execute_query has row_count = len(rows), every row as
\* long as columns, and the values of every row in the field order of columns,
\* which are the keys of the first row; no rows give columns=[], rows=[],
\* row_count=0.
C12_QueryResultShape ==
    \A r \in Requests :
        (req[r].route = "query" /\ req[r].pc = "done" /\ req[r].response.status = 200) =>
            LET body == req[r].response.body
                rows == req[r].rows
            IN  /\ body.row_count = Len(body.rows)
                /\ Len(body.rows) = Len(rows)
                /\ \A n \in 1..Len(body.rows) :
                      /\ Len(body.rows[n]) = Len(body.columns)
                      /\ Len(body.rows[n]) = Len(rows[n])
                      /\ \A i \in 1..Len(body.columns) :
                            /\ body.columns[i] = rows[1][i].key
                            /\ body.columns[i] = rows[n][i].key
                            /\ body.rows[n][i] = rows[n][i].value
                /\ rows = <<>> => body = [columns |-> <<>>, rows |-> <<>>, row_count |-> 0]

\* two rows of two fields came back
C12_Witness ==
    \E r \in Requests :
        /\ req[r].route = "query" /\ req[r].pc = "done" /\ req[r].response.status = 200
        /\ Len(req[r].rows) = 2
        /\ req[r].response.body.columns = <<"id", "name">>
        /\ req[r].response.body.row_count = 2
        /\ req[r].response.body.rows[2] = <<2, "b">>

\* C13: a fault that is none of the typed errors caught in a route is answered
\* with HTTP 500 and the JSON body {detail: <text of the exception>}, and every
\* response that is not 2xx has a body of the shape {detail: string}.
C13_UnhandledFaultsAnswerJsonDetail ==
    \A r \in Requests : req[r].pc = "done" =>
        /\ (req[r].exc # NoException /\ req[r].exc.type \notin DatabaseErrorTypes) =>
              req[r].response = database_error_handler(req[r].exc)
        /\ req[r].response.status \notin 200..299 => req[r].response.shape = "detail"

\* C14: GET /api/tables with page < 1 or page_size outside 1..100, and POST
\* /api/query with an empty query, are refused with a client error before the
\* use case runs: a Pagination is only built with page >= 1 and page_size in
\* 1..100 (1 and 100 accepted, omitted parameters giving page=1, page_size=10),
\* and neither the validator nor the repository sees an empty query.
C14_InputsValidatedBeforeUseCase ==
    \A r \in Requests :
        LET page == req[r].params.page
            page_size == req[r].params.page_size
            refused == /\ req[r].pc = "done"
                       /\ req[r].response.status \in 400..499
                       /\ req[r].pagination = NoPagination
                       /\ ~req[r].validator_called
                       /\ req[r].conn = "none"
                       /\ req[r].stmts = <<>>
            out_of_range == \/ (page.called /\ page.value < 1)
                            \/ (page_size.called /\ (page_size.value < 1 \/ page_size.value > 100))
        IN  /\ req[r].route = "tables" =>
                  /\ out_of_range => refused
                  /\ ~out_of_range =>
                        /\ req[r].pagination.page = (IF page.called THEN page.value ELSE 1)
                        /\ req[r].pagination.page_size = (IF page_size.called THEN page_size.value ELSE 10)
                  /\ req[r].pagination # NoPagination =>
                        /\ req[r].pagination.page >= 1
                        /\ req[r].pagination.page_size >= 1
                        /\ req[r].pagination.page_size <= 100
            /\ req[r].route = "query" =>
                  /\ req[r].query = <<>> => refused
                  /\ (req[r].validator_called \/ req[r].stmts # <<>>) => req[r].query # <<>>

\* page_size=101 was refused with 422 and no Pagination was built
C14_Witness ==
    \E r \in Requests :
        /\ req[r].route = "tables" /\ req[r].pc = "done"
        /\ req[r].params.page_size = Sent(101)
        /\ req[r].response.status = 422
        /\ req[r].pagination = NoPagination
        /\ req[r].stmts = <<>>

\* kw is written in q from position i on with no letter or digit touching it
AlnumBorderedAt(q, kw, i) ==
    /\ WrittenAt(q, kw, i)
    /\ (i = 1 \/ ~IsAlnum(q[i - 1]))
    /\ (i + Len(kw) - 1 = Len(q) \/ ~IsAlnum(q[i + Len(kw)]))

\* C15 as stated: is_safe_query is false exactly when a denylisted keyword occurs
\* with a non-alphanumeric character or the string boundary on both sides, an
\* underscore counting as such a character.
C15_AlnumBorderedKeywordMatches ==
    is_safe_result.called =>
        (is_safe_result.value = FALSE <=>
            \E k \in 1..Len(FORBIDDEN_KEYWORDS) : \E i \in 1..Len(query) :
                AlnumBorderedAt(query, FORBIDDEN_KEYWORDS[k], i))

\* C15: is_safe_query is false exactly when a denylisted keyword occurs with a
\* character that is no letter, digit or underscore, or the string boundary, on
\* both sides; an occurrence that an underscore touches belongs to a longer
\* identifier and does not make the query unsafe.
C15_WordBorderedKeywordMatches ==
    is_safe_result.called =>
        /\ is_safe_result.value = FALSE <=> StandaloneKeywords(query) # {}
        /\ (\A k \in 1..Len(FORBIDDEN_KEYWORDS) : \A i \in 1..Len(query) :
                WrittenAt(query, FORBIDDEN_KEYWORDS[k], i) =>
                    \/ (i > 1 /\ (IsAlnum(query[i - 1]) \/ query[i - 1] = "_"))
                    \/ (i + Len(FORBIDDEN_KEYWORDS[k]) - 1 < Len(query)
                        /\ (IsAlnum(query[i + Len(FORBIDDEN_KEYWORDS[k])])
                            \/ query[i + Len(FORBIDDEN_KEYWORDS[k])] = "_")))
              => is_safe_result.value = TRUE

\* "_DROP": the underscore makes DROP part of an identifier, the query is safe
C15_Witness ==
    /\ query = <<"_","D","R","O","P">>
    /\ AlnumBorderedAt(query, <<"D","R","O","P">>, 2)
    /\ is_safe_result = Called(TRUE)

\* what get_table_schema reports for a name over one state of the catalog
SchemaOf(cat, name) ==
    SchemaResponse(name, comment_query(cat, name), columns_query(cat, name),
                   indexes_query(cat, name))

\* C16: whatever the catalog changes made while it is served, a GetTableSchema
\* request that succeeds reports the comment, columns and indexes the relation
\* had in one single state of the catalog in which it existed.
C16_SchemaFromOneCatalogState ==
    \A r \in Requests :
        (req[r].route = "schema" /\ req[r].pc = "done" /\ req[r].response.status = 200) =>
            \E cat \in req[r].seen :
                /\ InSchema(cat, req[r].table_name)
                /\ req[r].response = SchemaOf(cat, req[r].table_name)

\* the names of the key columns of an index, in the order of its definition
KeyColumns(ix) == [p \in 1..Len(ix.indkey) |-> Detail(ix.indrelid).columns[ix.indkey[p]]]

\* C17: every index reported by get_table_schema lists its columns in the
\* order of the index key, not in the order of the columns in the table.
C17_IndexColumnsInKeyOrder ==
    \A r \in Requests :
        (req[r].route = "schema" /\ req[r].pc = "done" /\ req[r].response.status = 200
         /\ ~req[r].changed) =>
            \A idx \in req[r].response.body.indexes :
                \E ix \in pg_index :
                    /\ ix.indexrelid = idx.index_name
                    /\ idx.columns = KeyColumns(ix)

\* C18: get_table_schema succeeds only for the names list_tables enumerates,
\* the tables, views and materialized views of the schema; for any other name
\* its existence statement answers for, it fails with TableNotFoundError.
C18_SchemaOnlyForListedRelations ==
    \A r \in Requests :
        (req[r].route = "schema" /\ ~req[r].changed) =>
            LET listed == {c.relname : c \in Enumerated(catalog)}
            IN  /\ (req[r].pc = "done" /\ req[r].response.status = 200) =>
                      req[r].table_name \in listed
                /\ (req[r].exists.called /\ req[r].table_name \notin listed) =>
                      req[r].exc.type = "TableNotFoundError"

\* the tables, views and materialized views of the schema named by db_schema
Configured(cat) ==
    {c \in cat : c.nspname = settings.db_schema /\ c.relkind \in {"r", "v", "m"}}

\* C19: for every value of db_schema, list_tables lists and counts, and
\* get_table_schema describes, relations of the schema of that name only.
C19_ConfiguredSchemaOnly ==
    \A r \in Requests :
        (req[r].pc = "done" /\ req[r].response.status = 200 /\ ~req[r].changed) =>
            /\ req[r].route = "tables" =>
                  /\ req[r].response.body.pagination.total_count = Cardinality(Configured(catalog))
                  /\ \A i \in 1..Len(req[r].response.body.tables) :
                        \E c \in Configured(catalog) :
                            c.relname = req[r].response.body.tables[i].table_name
            /\ req[r].route = "schema" =>
                  \E c \in catalog :
                      c.relname = req[r].table_name /\ c.nspname = settings.db_schema

\* C20: ListTables for a page whose offset is at or past the number of
\* relations, none at all included, does not fail for that: the statements are
\* issued with offset (page-1)*page_size and, when they answer, the response
\* is 200 with no tables and the true total_count (total_pages 0 for none).
C20_PagePastTheEndIsEmpty ==
    \A r \in Requests :
        (req[r].route = "tables" /\ req[r].pagination # NoPagination /\ ~req[r].changed) =>
            LET total == Cardinality(Enumerated(catalog))
                off == (req[r].page - 1) * req[r].page_size
            IN  /\ req[r].page_args # <<>> => req[r].page_args = <<req[r].page_size, off>>
                /\ off >= total =>
                      /\ req[r].exc.type \in {"none"} \cup (DriverOutcomes \ {"ok"})
                      /\ req[r].stmts = <<"count", "page">> /\ req[r].exc = NoException =>
                            /\ req[r].pc = "done"
                            /\ req[r].response.status = 200
                            /\ req[r].response.body.tables = <<>>
                            /\ req[r].response.body.pagination.total_count = total
                            /\ total = 0 => req[r].response.body.pagination.total_pages = 0

\* page 2 of size 2 over a single relation: empty, total_count 1
C20_Witness ==
    \E r \in Requests :
        /\ req[r].route = "tables" /\ req[r].pc = "done" /\ ~req[r].changed
        /\ req[r].page = 2 /\ req[r].page_size = 2
        /\ req[r].page_args = <<2, 2>>
        /\ req[r].response.status = 200
        /\ req[r].response.body.tables = <<>>
        /\ req[r].response.body.pagination.total_count = 1
        /\ Cardinality(Enumerated(catalog)) = 1

\* the statements of a route, in the order the repository issues them
StatementOrder(route) ==
    CASE route = "tables" -> <<"count", "page">>
      [] route = "schema" -> <<"exists", "comment", "columns", "indexes">>
      [] route = "query" -> <<"fetch">>
      [] OTHER -> <<>>

IsPrefix(s, t) == Len(s) <= Len(t) /\ SubSeq(t, 1, Len(s)) = s

\* the request ended on a statement the driver failed
StatementFailed(r) ==
    req[r].exc.type \in (DriverOutcomes \ {"ok"}) \cup {"QueryExecutionError"}

\* the statements issued so far are the first ones of the route's order, each
\* once; a fetch carries the request's query text; a request that succeeded
\* issued all of them; a failed statement ends the request with its error
C21_IssuedInOrderOnce ==
    \A r \in Requests :
        /\ IsPrefix(req[r].stmts, StatementOrder(req[r].route))
        /\ req[r].stmts = <<"fetch">> => req[r].fetch_arg = req[r].query
        /\ (req[r].pc = "done" /\ req[r].response.status = 200) =>
              req[r].stmts = StatementOrder(req[r].route)
        /\ StatementFailed(r) =>
              /\ req[r].pc = "done"
              /\ req[r].stmts # <<>>
              /\ req[r].response.status = 500
              /\ \E outcome \in DriverOutcomes \ {"ok"} :
                    EndsWith(req[r].exc.message, DriverException(outcome).message)

\* a step issues at most one statement of a request, after those issued
\* before, and none for a request that has ended
C21_StepIssuesAtMostOne ==
    \A r \in Requests :
        /\ \/ req'[r].stmts = req[r].stmts
           \/ /\ Len(req'[r].stmts) = Len(req[r].stmts) + 1
              /\ IsPrefix(req[r].stmts, req'[r].stmts)
        /\ req[r].pc = "done" => req'[r].stmts = req[r].stmts

\* C21: no retries: within a request every statement is issued at most once
\* and in the repository's order (one fetch of the given query text; one count
\* and one page fetch; existence, comment, columns, indexes), and after the
\* first statement that fails no further statement is issued and the request
\* fails with that error.
C21_NoRetries == [](C21_IssuedInOrderOnce) /\ [][C21_StepIssuesAtMostOne]_vars

\* the comment statement of get_table_schema failed: nothing was issued after it
C21_Witness ==
    \E r \in Requests :
        /\ req[r].route = "schema" /\ req[r].pc = "done"
        /\ req[r].stmts = <<"exists", "comment">>
        /\ req[r].exc = DriverException("PostgresError")
        /\ req[r].response.status = 500

\* C22: in every ListTables response, also when relations were created or
\* dropped between the count and the page statement, the page lies within the
\* count: offset + len(tables) <= total_count for a page that is not empty,
\* and that page is one of the total_pages pages.
C22_PageWithinTotalCount ==
    \A r \in Requests :
        (req[r].route = "tables" /\ req[r].pc = "done" /\ req[r].response.status = 200) =>
            LET body == req[r].response.body
                off == (body.pagination.page - 1) * body.pagination.page_size
            IN  body.tables # <<>> =>
                    /\ off + Len(body.tables) <= body.pagination.total_count
                    /\ body.pagination.page <= body.pagination.total_pages

\* pages 1 .. n were all answered with 200
Answered(n) ==
    /\ n <= Len(req)
    /\ \A k \in 1..n : req[k].route = "tables" /\ req[k].pc = "done" /\ req[k].response.status = 200

\* the table names of the answer to page k
PageNames(k) ==
    [i \in 1..Len(req[k].response.body.tables) |-> req[k].response.body.tables[i].table_name]

\* the names of pages 1 .. n one after another
RECURSIVE WalkNames(_)
WalkNames(n) == IF n = 0 THEN <<>> ELSE WalkNames(n - 1) \o PageNames(n)

\* C23: over a fixed catalog and for a page_size in 1..100, the answers to
\* pages 1 .. total_pages hold every table, view and materialized view exactly
\* once: the pages are disjoint, one after another they are the whole list in
\* ascending name order, every page before the last has page_size entries,
\* and the page lengths add up to total_count.
C23_PagesCoverEveryRelationOnce ==
    Answered(1) =>
        LET first == req[1].response.body.pagination
            n == first.total_pages
            all == WalkNames(n)
        IN  Answered(n) =>
                /\ first.page_size \in 1..100
                /\ \A k \in 1..n : req[k].response.body.pagination = [first EXCEPT !.page = k]
                /\ Len(all) = first.total_count
                /\ Len(all) = Cardinality(Enumerated(catalog))
                /\ {all[i] : i \in 1..Len(all)} = {c.relname : c \in Enumerated(catalog)}
                /\ \A i, j \in 1..Len(all) : i < j => NameRank(all[i]) < NameRank(all[j])
                /\ \A k \in 1..n : k < n => Len(PageNames(k)) = first.page_size
                /\ \A k, l \in 1..n : k # l =>
                      {PageNames(k)[i] : i \in 1..Len(PageNames(k))}
                        \cap {PageNames(l)[i] : i \in 1..Len(PageNames(l))} = {}

\* three relations walked two per page: accounts and orders, then stats
C23_Witness ==
    /\ Answered(2)
    /\ req[1].response.body.pagination.total_pages = 2
    /\ req[1].response.body.pagination.total_count = 3
    /\ PageNames(1) = <<"accounts", "orders">>
    /\ PageNames(2) = <<"stats">>

====
